---------------------------- MODULE Spec2Model ----------------------------
(***************************************************************************)
(* Model of the blendin documentation plugins: the API client              *)
(* (createAPIClient, fetchWithTimeout, authenticatedGet/Post), the         *)
(* progress poller (pollTranslationProgress) and the translation workflow  *)
(* (runTranslationScript, executeTranslation).                             *)
(*                                                                         *)
(* Three specifications share the API client's actions:                    *)
(*   Spec      a caller using an API client directly                       *)
(*   SpecPoll  one run of pollTranslationProgress                          *)
(*   SpecExec  one run of runTranslationScript / executeTranslation        *)
(***************************************************************************)
EXTENDS Integers, Sequences, FiniteSets, TLC

VARIABLES
    apiToken,     \* apiClientConfig?.apiToken of the client in use
    calls,        \* every authenticatedGet/authenticatedPost call made, in order
    fetchCount,   \* number of calls of the transport (fetch)
    sentinel,     \* pollTranslationProgress: let sentinel
    intervalId,   \* pollTranslationProgress: the setInterval timer
    promise,      \* pollTranslationProgress: state of the returned promise
    rejection,    \* pollTranslationProgress: the error the promise rejected with
    stdout,       \* pollTranslationProgress: what was written to the console
    i18n,         \* context.siteConfig.i18n
    options,      \* the plugin options: project.projectId, project.apiToken
    disk,         \* the source files found on disk, in directory order
    i18nDir,      \* the files written under i18n/
    pc,           \* runTranslationScript / executeTranslation: position
    blendinConfig,\* the configuration handed to executeTranslation
    filesMetadata,\* executeTranslation: const filesMetadata
    planBody,     \* the plan body executeTranslation submits
    execPromise,  \* state of the promise executeTranslation returns
    scriptPromise \* state of the promise runTranslationScript returns

clientVars == <<apiToken, calls, fetchCount>>
pollVars == <<sentinel, intervalId, promise, rejection, stdout>>
execVars == <<i18n, options, disk, i18nDir, pc, blendinConfig, filesMetadata, planBody,
              execPromise, scriptPromise>>
vars == <<apiToken, calls, fetchCount, sentinel, intervalId, promise, rejection,
          stdout, i18n, options, disk, i18nDir, pc, blendinConfig, filesMetadata,
          planBody, execPromise, scriptPromise>>

---------------------------------------------------------------------------
(* Bounds *)

\* calls an API client's user makes in Spec
MaxCalls == 2
\* status requests one poller run issues in SpecPoll
MaxRequests == 3
\* the job's translations_total reported by the server
MaxTotal == 1
\* source files on disk in SpecExec
MaxFiles == 2
\* length of i18n.locales in SpecExec
MaxLocales == 2

---------------------------------------------------------------------------
(* JavaScript values *)

JsUndefined == [t |-> "undefined", v |-> ""]
JsString(s) == [t |-> "string", v |-> s]
NumUndefined == [t |-> "undefined", v |-> 0]
JsNumber(n) == [t |-> "number", v |-> n]

\* a ?? b
Coalesce(a, b) == IF a.t = "undefined" THEN b ELSE a
\* truthiness of a string-or-undefined value
Truthy(a) == a.t = "string" /\ a.v # ""

NoHeaders == [k \in {} |-> ""]
NoBody == [k \in {} |-> JsUndefined]
\* { ...a, ...b }: the keys of both, b's value where both have the key
Spread(a, b) ==
    [k \in (DOMAIN a) \cup (DOMAIN b) |-> IF k \in DOMAIN b THEN b[k] ELSE a[k]]

\* JSON.stringify(data) of an object whose properties are strings, undefined, or
\* arrays: a property whose value is undefined is left out, and an undefined
\* element of an array becomes null
JsNull == [t |-> "null", v |-> ""]
ValueArrayKeys == {"target_locale_isos"}
ObjectArrayKeys == {"files_metadata"}
StringifyProperty(k, x) ==
    IF k \in ValueArrayKeys
    THEN [j \in 1..Len(x) |-> IF x[j] = JsUndefined THEN JsNull ELSE x[j]]
    ELSE x
JSONStringify(data) ==
    [k \in {j \in DOMAIN data :
                j \in ValueArrayKeys \cup ObjectArrayKeys \/ data[j] # JsUndefined}
        |-> StringifyProperty(k, data[k])]

---------------------------------------------------------------------------
(* API client: src/docusaurus/types.ts *)

\* BLENDIN_CLI_API_URL, as one token of a URL (a URL is a sequence of tokens)
BLENDIN_CLI_API_URL == "https://blendinapi"
baseURL == BLENDIN_CLI_API_URL

\* tokens a client may be configured with: absent, empty, a real token
Tokens == {JsUndefined, JsString(""), JsString("tok")}

\* const apiToken = apiClientConfig?.apiToken ?? ''
TokenOf(cfgToken) == Coalesce(cfgToken, JsString(""))

\* if (apiToken)
HasTokenNonNull(cfgToken) == cfgToken.t # "undefined"
HasToken(cfgToken) == Truthy(TokenOf(cfgToken))

\* the response bodies the server may send
EmptyObject == [json |-> "object", total |-> NumUndefined, completed |-> NumUndefined]
Progress(c, t) == [json |-> "object", total |-> JsNumber(t), completed |-> JsNumber(c)]
Bodies ==
    {Progress(c, MaxTotal) : c \in 0..MaxTotal}
    \cup {EmptyObject,
          [json |-> "object", total |-> JsNumber(MaxTotal), completed |-> NumUndefined],
          [json |-> "null", total |-> NumUndefined, completed |-> NumUndefined],
          [json |-> "invalid", total |-> NumUndefined, completed |-> NumUndefined]}
Responses ==
    {[status |-> 200, statusText |-> "OK", body |-> b] : b \in Bodies}
    \cup {[status |-> 500, statusText |-> "Internal Server Error", body |-> EmptyObject]}
NoResponse == [status |-> 0, statusText |-> "", body |-> EmptyObject]

\* what a call of authenticatedGet / authenticatedPost settles with
NoOutcome == [kind |-> "pending", status |-> 0, statusText |-> "", data |-> EmptyObject,
              error |-> ""]
Fulfilled(status, statusText, data) ==
    [kind |-> "ok", status |-> status, statusText |-> statusText, data |-> data,
     error |-> ""]
Rejected(error) ==
    [kind |-> "error", status |-> 0, statusText |-> "", data |-> EmptyObject,
     error |-> error]
Unauthorized == Fulfilled(401, "Unauthorized", EmptyObject)

TimeoutError == "Error: Request timed out"
NetworkError == "TypeError: fetch failed"
JsonError == "SyntaxError: Unexpected token"

\* config absent: no method, no headers
NoConfig == [method |-> "", headers |-> NoHeaders]

\* headers: { ...config?.headers, 'Content-Type': ..., 'X-API-Token': apiToken }
FixedHeaders(token) ==
    [k \in {"Content-Type", "X-API-Token"} |->
        IF k = "Content-Type" THEN "application/json" ELSE token.v]
RequestHeadersCallerWins(config, token) == Spread(FixedHeaders(token), config.headers)
RequestHeaders(config, token) == Spread(config.headers, FixedHeaders(token))

\* the options authenticatedGet hands to fetch: { ...config, headers }
GetOptions(config, token) ==
    [method |-> config.method, headers |-> RequestHeaders(config, token), body |-> NoBody]
\* the options authenticatedPost hands to fetch:
\* { method: 'POST', ...config, headers, body: JSON.stringify(data) }
PostOptions(config, token, data) ==
    [method |-> IF config.method = "" THEN "POST" ELSE config.method,
     headers |-> RequestHeaders(config, token), body |-> JSONStringify(data)]
NoOptions == [method |-> "", headers |-> NoHeaders, body |-> NoBody]

\* `${baseURL}${url}`
FullUrl(url) == <<baseURL>> \o url

\* fetchWithTimeout(url, options, timeout): the timer is set, fetch is called
fetchWithTimeout(fn, awaiter, url, init) ==
    [fn |-> fn, awaiter |-> awaiter, fetched |-> TRUE, url |-> url, options |-> init,
     transport |-> "pending", timer |-> "armed", phase |-> "fetch",
     response |-> NoResponse, outcome |-> NoOutcome]
\* the else branch: Promise.resolve({data: {}, status: 401, ...}); the promise is
\* resolved at once, and the caller's continuation is queued as a microtask
ShortCircuit(fn, awaiter) ==
    [fn |-> fn, awaiter |-> awaiter, fetched |-> FALSE, url |-> <<>>, options |-> NoOptions,
     transport |-> "none", timer |-> "none", phase |-> "micro",
     response |-> NoResponse, outcome |-> Unauthorized]

authenticatedGet(cfgToken, awaiter, url, config) ==
    IF HasToken(cfgToken)
    THEN fetchWithTimeout("GET", awaiter, FullUrl(url), GetOptions(config, TokenOf(cfgToken)))
    ELSE ShortCircuit("GET", awaiter)

authenticatedPost(cfgToken, awaiter, url, data, config) ==
    IF HasToken(cfgToken)
    THEN fetchWithTimeout("POST", awaiter, FullUrl(url),
                          PostOptions(config, TokenOf(cfgToken), data))
    ELSE ShortCircuit("POST", awaiter)

\* setTimeout(() => reject(new Error('Request timed out')), timeout) fires:
\* a reject of an already settled promise does nothing
OnTimeout(c) ==
    IF c.phase = "fetch"
    THEN [c EXCEPT !.timer = "fired", !.phase = "done", !.outcome = Rejected(TimeoutError)]
    ELSE [c EXCEPT !.timer = "fired"]

ClearTimeout(timer) == IF timer = "armed" THEN "cleared" ELSE timer

\* .then((response) => { clearTimeout(timer); resolve(response); })
OnResponseKeepTimer(c, r) ==
    IF c.phase = "fetch"
    THEN [c EXCEPT !.transport = "responded", !.phase = "json", !.response = r]
    ELSE [c EXCEPT !.transport = "responded"]
OnResponse(c, r) ==
    IF c.phase = "fetch"
    THEN [c EXCEPT !.transport = "responded", !.timer = ClearTimeout(c.timer),
                   !.phase = "json", !.response = r]
    ELSE [c EXCEPT !.transport = "responded", !.timer = ClearTimeout(c.timer)]

\* .catch((err) => { clearTimeout(timer); reject(err); })
OnFetchError(c) ==
    IF c.phase = "fetch"
    THEN [c EXCEPT !.transport = "failed", !.timer = ClearTimeout(c.timer),
                   !.phase = "done", !.outcome = Rejected(NetworkError)]
    ELSE [c EXCEPT !.transport = "failed", !.timer = ClearTimeout(c.timer)]

\* const data = await response.json(); return {data, status, statusText, headers}
OnJson(c) ==
    IF c.response.body.json = "invalid"
    THEN [c EXCEPT !.phase = "done", !.outcome = Rejected(JsonError)]
    ELSE [c EXCEPT !.phase = "done",
                   !.outcome = Fulfilled(c.response.status, c.response.statusText,
                                         c.response.body)]

---------------------------------------------------------------------------
(* Progress poller: pollTranslationProgress in src/unnamed/part_000 *)

TranslationJobId == "job-1"
\* `${BLENDIN_CLI_API_URL}/translation-jobs/${translationJobId}/translation-progress`
ProgressUrl(translationJobId) ==
    <<BLENDIN_CLI_API_URL, "/translation-jobs/", translationJobId, "/translation-progress">>

DestructureError == "TypeError: Cannot destructure property of null"

\* new Promise: resolve() and reject() act on a pending promise only
Resolve(p) == IF p = "pending" THEN "resolved" ELSE p
Reject(p) == IF p = "pending" THEN "rejected" ELSE p

\* clearInterval(intervalId)
ClearInterval(id) == IF id = "active" THEN "cleared" ELSE id

ProgressLine(data) ==
    [line |-> "Processing Translations", completed |-> data.completed,
     total |-> data.total, text |-> ""]
CompletedLine ==
    [line |-> "Translation Job Completed", completed |-> NumUndefined,
     total |-> NumUndefined, text |-> ""]
ErrorLine(error) ==
    [line |-> "Error", completed |-> NumUndefined, total |-> NumUndefined, text |-> error]

\* the poller's variables as one record
PollRecord ==
    [sentinel |-> sentinel, intervalId |-> intervalId, promise |-> promise,
     rejection |-> rejection, stdout |-> stdout]

\* if (translations_completed === translations_total) { clearInterval; sentinel = true;
\*   console.log(...); resolve(); }
OnCompletedNoSentinel(p) ==
    [p EXCEPT !.intervalId = ClearInterval(@), !.stdout = Append(@, CompletedLine),
              !.promise = Resolve(@)]
OnCompleted(p) ==
    [p EXCEPT !.intervalId = ClearInterval(@), !.sentinel = TRUE,
              !.stdout = Append(@, CompletedLine), !.promise = Resolve(@)]

\* catch (error) { clearLine(); write(`Error: ...`); sentinel = true; clearInterval;
\*   reject(error); }
OnError(p, error) ==
    [p EXCEPT !.stdout = Append(@, ErrorLine(error)), !.sentinel = TRUE,
              !.intervalId = ClearInterval(@), !.promise = Reject(@),
              !.rejection = IF p.promise = "pending" THEN error ELSE @]

\* translations_completed === translations_total
StrictEquals(a, b) == a = b

\* getAndPrintProgress after its await: the rest of the try block, or the catch
AfterAwait(p, o) ==
    IF o.kind = "error" THEN OnError(p, o.error)
    ELSE IF o.data.json = "null" THEN OnError(p, DestructureError)
    ELSE LET q == [p EXCEPT !.stdout = Append(@, ProgressLine(o.data))]
         IN  IF StrictEquals(o.data.completed, o.data.total) THEN OnCompleted(q) ELSE q

SetPoll(p) ==
    /\ sentinel' = p.sentinel
    /\ intervalId' = p.intervalId
    /\ promise' = p.promise
    /\ rejection' = p.rejection
    /\ stdout' = p.stdout

---------------------------------------------------------------------------
(* Translation workflow: src/unnamed/part_000 and src/unnamed/part_001 *)

\* the site's locale names
SiteLocales == {"en", "fr", "fr-FR", "xx"}
\* DEFAULT_FLAGS of @blendin/types: the BlendinLocaleCode of a site locale. The table
\* is not part of the sources; this one maps two site locales to one code and has
\* no entry for "xx"
DEFAULT_FLAGS(locale) ==
    CASE locale = "en" -> JsString("en-US")
      [] locale \in {"fr", "fr-FR"} -> JsString("fr-FR")
      [] OTHER -> JsUndefined

\* String(locale).toLowerCase()
ToLowerCase(code) ==
    CASE code = JsString("en-US") -> "en-us"
      [] code = JsString("fr-FR") -> "fr-fr"
      [] OTHER -> "undefined"

RECURSIVE Filter(_, _)
\* seq.filter((x) => x !== drop)
Filter(seq, drop) ==
    IF seq = <<>> THEN <<>>
    ELSE (IF Head(seq) # drop THEN <<Head(seq)>> ELSE <<>>) \o Filter(Tail(seq), drop)

\* getLocalesConfig(i18n).locales
getLocalesConfigBySiteLocale(cfg) ==
    LET blendinLocales == [k \in 1..Len(cfg.locales) |-> DEFAULT_FLAGS(cfg.locales[k])]
        sourceLocales == Filter(blendinLocales, JsString(cfg.defaultLocale))
    IN  [defaultLocale |-> JsString(cfg.defaultLocale), targetLocales |-> sourceLocales]
getLocalesConfig(cfg) ==
    LET blendinLocales == [k \in 1..Len(cfg.locales) |-> DEFAULT_FLAGS(cfg.locales[k])]
        sourceLocales == Filter(blendinLocales, DEFAULT_FLAGS(cfg.defaultLocale))
    IN  [defaultLocale |-> JsString(cfg.defaultLocale), targetLocales |-> sourceLocales]

\* DocusaurusBlendinPluginOptionsSchema.parse(options): both strings non-empty
SchemaAccepts(opts) == Truthy(opts.projectId) /\ Truthy(opts.apiToken)

\* the paths getAllSourceFiles finds, in directory order, with the plugin of their root
SourcePaths ==
    << [pluginName |-> "docusaurus-plugin-content-docs", sourceFilePath |-> <<"docs", "a.md">>],
       [pluginName |-> "docusaurus-plugin-content-docs", sourceFilePath |-> <<"docs", "sub", "a.md">>],
       [pluginName |-> "docusaurus-plugin-content-blog", sourceFilePath |-> <<"blog", "b.md">>],
       [pluginName |-> "docusaurus-plugin-content-docs", sourceFilePath |-> <<"docs", "c.md">>] >>

\* file contents: texts over a small alphabet; Unreadable: reading the file throws
Unreadable == <<"EACCES">>
Contents == {<<"a">>, <<"a", "\n">>, <<" ", "a">>, <<"b">>, Unreadable}
Whitespace == {" ", "\n", "\t"}

Disks ==
    UNION {[1..n -> Contents] : n \in 0..MaxFiles}

\* sourceFiles of runTranslationScript: getAllSourceFiles(roots)
SourceFiles(d) == [k \in 1..Len(d) |-> SourcePaths[k]]
\* fs.readFileSync(path, 'utf8')
IndexOfPath(path) == CHOOSE k \in 1..Len(SourcePaths) : SourcePaths[k].sourceFilePath = path
Readable(d, path) == d[IndexOfPath(path)] # Unreadable
ReadFileSync(d, path) == d[IndexOfPath(path)]

RECURSIVE TrimStart(_)
TrimStart(text) ==
    IF text # <<>> /\ Head(text) \in Whitespace THEN TrimStart(Tail(text)) ELSE text
RECURSIVE TrimEnd(_)
TrimEnd(text) ==
    IF text # <<>> /\ text[Len(text)] \in Whitespace
    THEN TrimEnd(SubSeq(text, 1, Len(text) - 1))
    ELSE text
\* fileContent.trim()
Trim(text) == TrimEnd(TrimStart(text))

\* generateStringHash of @blendin/sdk-js: a deterministic digest of the text, taken
\* to be free of collisions
generateStringHash(text) == <<"#">> \o text

\* path.basename(file.sourceFilePath)
Basename(path) == path[Len(path)]

\* the (locale, file) pairs copySourceFilesToLocales visits, in order
RECURSIVE CopyWork(_, _, _)
CopyWork(targetLocales, sourceFiles, defaultLocale) ==
    IF targetLocales = <<>> THEN <<>>
    ELSE (IF Head(targetLocales) = DEFAULT_FLAGS(defaultLocale)
          THEN <<>>
          ELSE [k \in 1..Len(sourceFiles) |->
                   [locale |-> Head(targetLocales), file |-> sourceFiles[k]]])
         \o CopyWork(Tail(targetLocales), sourceFiles, defaultLocale)

\* fs.copyFileSync(file.sourceFilePath, destinationPath): the destination is
\* i18n/<locale in lower case>/<pluginName>/current/<basename>
DestinationPath(locale, file) ==
    <<"i18n", ToLowerCase(locale), file.pluginName, "current",
      Basename(file.sourceFilePath)>>
CopyFileSyncKeepFirst(dir, d, w) ==
    LET dest == DestinationPath(w.locale, w.file)
    IN  IF \E e \in dir : e.path = dest THEN dir
        ELSE dir \cup {[path |-> dest, content |-> ReadFileSync(d, w.file.sourceFilePath)]}
CopyFileSync(dir, d, w) ==
    LET dest == DestinationPath(w.locale, w.file)
    IN  {e \in dir : e.path # dest}
        \cup {[path |-> dest, content |-> ReadFileSync(d, w.file.sourceFilePath)]}

\* copySourceFilesToLocales: the copies made until one throws
RECURSIVE CopyAll(_, _, _)
CopyAll(work, d, dir) ==
    IF work = <<>> THEN [dir |-> dir, threw |-> FALSE]
    ELSE IF ~Readable(d, Head(work).file.sourceFilePath) THEN [dir |-> dir, threw |-> TRUE]
    ELSE CopyAll(Tail(work), d, CopyFileSync(dir, d, Head(work)))
copySourceFilesToLocales(sourceFiles, targetLocales, defaultLocale, d, dir) ==
    CopyAll(CopyWork(targetLocales, sourceFiles, defaultLocale), d, dir)

\* the DocusaurusBlendinConfig runTranslationScript builds
ScriptConfig(opts, locales, sourceFiles) ==
    [projectId |-> opts.projectId, apiToken |-> opts.apiToken,
     sourceLocale |-> JsUndefined, defaultLocale |-> locales.defaultLocale,
     targetLocales |-> locales.targetLocales,
     sourceFilePaths |-> [k \in 1..Len(sourceFiles) |-> sourceFiles[k].sourceFilePath]]

\* getFilesMetadata(filePaths): one entry per path, in order; throws when a read fails
GetFilesMetadataThrows(d, filePaths) ==
    \E k \in 1..Len(filePaths) : ~Readable(d, filePaths[k])
getFilesMetadataUntrimmed(d, filePaths) ==
    [k \in 1..Len(filePaths) |->
        [sourceFilePath |-> filePaths[k],
         fileHash |-> generateStringHash(ReadFileSync(d, filePaths[k]))]]
getFilesMetadata(d, filePaths) ==
    [k \in 1..Len(filePaths) |->
        [sourceFilePath |-> filePaths[k],
         fileHash |-> generateStringHash(Trim(ReadFileSync(d, filePaths[k])))]]

\* translationJobPlanPostData of executeTranslation
PlanPostData(cfg, metadata) ==
    [project_uuid |-> cfg.projectId,
     source_locale_iso |-> cfg.sourceLocale,
     target_locale_isos |-> cfg.targetLocales,
     files_metadata |-> metadata]

PlanUrl == <<"/translation-jobs/generate-plan-from-entire-files">>

\* pullTranslations: `${BLENDIN_CLI_API_URL}/projects/${projectId}/translations-object`
TranslationsObjectUrl(projectId) ==
    <<BLENDIN_CLI_API_URL, "/projects/", projectId, "/translations-object">>

\* executeTranslation after the await of authenticatedPost: the response is logged,
\* or the rejection leaves the function
AfterPost(o) ==
    /\ pc = "exec-await-post"
    /\ pc' = "done"
    /\ execPromise' = IF o.kind = "ok" THEN "resolved" ELSE "rejected"
    /\ UNCHANGED <<i18n, options, disk, i18nDir, blendinConfig, filesMetadata, planBody,
                   scriptPromise>>

---------------------------------------------------------------------------
(* The event loop: a settled call resumes the function awaiting it *)

MicrotaskPending == \E i \in 1..Len(calls) : calls[i].phase = "micro"
Outstanding(c) == c.phase \in {"fetch", "json"}

\* the continuation of the function that awaits call c
Continue(c) ==
    CASE c.awaiter = "poll" -> SetPoll(AfterAwait(PollRecord, c.outcome)) /\ UNCHANGED execVars
      [] c.awaiter = "exec" -> AfterPost(c.outcome) /\ UNCHANGED pollVars
      [] OTHER -> UNCHANGED <<pollVars, execVars>>

\* call i becomes c; when that settles it, the awaiting function resumes
Step(i, c) ==
    /\ calls' = [calls EXCEPT ![i] = c]
    /\ IF c.phase = "done" /\ calls[i].phase # "done"
       THEN Continue(c)
       ELSE UNCHANGED <<pollVars, execVars>>
    /\ UNCHANGED <<apiToken, fetchCount>>

\* the continuation after an already resolved promise runs before any timer or I/O
RunMicrotask(i) ==
    /\ calls[i].phase = "micro"
    /\ Step(i, [calls[i] EXCEPT !.phase = "done"])

\* the transport answers call i
FetchResponds(i, r) ==
    /\ ~MicrotaskPending
    /\ calls[i].transport = "pending"
    /\ Step(i, OnResponse(calls[i], r))

\* the transport fails call i
FetchFails(i) ==
    /\ ~MicrotaskPending
    /\ calls[i].transport = "pending"
    /\ Step(i, OnFetchError(calls[i]))

\* the timeout timer of call i fires
TimerFires(i) ==
    /\ ~MicrotaskPending
    /\ calls[i].timer = "armed"
    /\ Step(i, OnTimeout(calls[i]))

\* response.json() of call i finishes
JsonSettles(i) ==
    /\ ~MicrotaskPending
    /\ calls[i].phase = "json"
    /\ Step(i, OnJson(calls[i]))

ResponsesFor(c) ==
    IF c.awaiter = "poll" THEN Responses
    ELSE {r \in Responses : r.body \in {Progress(MaxTotal, MaxTotal),
                                        [json |-> "invalid", total |-> NumUndefined,
                                         completed |-> NumUndefined]}}

ClientNext ==
    \/ \E i \in 1..Len(calls) : RunMicrotask(i)
    \/ \E i \in 1..Len(calls) : \E r \in ResponsesFor(calls[i]) : FetchResponds(i, r)
    \/ \E i \in 1..Len(calls) : FetchFails(i)
    \/ \E i \in 1..Len(calls) : TimerFires(i)
    \/ \E i \in 1..Len(calls) : JsonSettles(i)

\* a call is made: fetch is called unless the client short-circuits
Issue(c) ==
    /\ calls' = Append(calls, c)
    /\ fetchCount' = fetchCount + (IF c.fetched THEN 1 ELSE 0)
    /\ UNCHANGED apiToken

---------------------------------------------------------------------------
(* Spec: a caller using an API client directly *)

\* what the caller passes: url, data, config
EnvRequests ==
    {[url |-> <<"/ping">>, data |-> NoBody, config |-> NoConfig],
     [url |-> <<"/ping">>, data |-> NoBody,
      config |-> [method |-> "", headers |-> [k \in {"Content-Type"} |-> "text/plain"]]],
     [url |-> <<"/jobs">>, data |-> [name |-> JsString("a"), note |-> JsUndefined],
      config |-> [method |-> "PUT",
                  headers |-> [k \in {"Content-Type", "X-API-Token", "Accept",
                                      "content-type"} |-> "other"]]]}

PollIdle ==
    /\ sentinel = FALSE
    /\ intervalId = "unset"
    /\ promise = "idle"
    /\ rejection = ""
    /\ stdout = <<>>

NoBlendinConfig ==
    [projectId |-> JsUndefined, apiToken |-> JsUndefined, sourceLocale |-> JsUndefined,
     defaultLocale |-> JsUndefined, targetLocales |-> <<>>, sourceFilePaths |-> <<>>]

ExecIdle ==
    /\ i18n = [defaultLocale |-> "en", locales |-> <<>>]
    /\ options = [projectId |-> JsUndefined, apiToken |-> JsUndefined]
    /\ disk = <<>>
    /\ i18nDir = {}
    /\ pc = "idle"
    /\ blendinConfig = NoBlendinConfig
    /\ filesMetadata = <<>>
    /\ planBody = NoBody
    /\ execPromise = "idle"
    /\ scriptPromise = "idle"

Init ==
    /\ apiToken \in Tokens
    /\ calls = <<>>
    /\ fetchCount = 0
    /\ PollIdle
    /\ ExecIdle

EnvGet(q) ==
    /\ ~MicrotaskPending
    /\ Len(calls) < MaxCalls
    /\ Issue(authenticatedGet(apiToken, "env", q.url, q.config))
    /\ UNCHANGED <<pollVars, execVars>>

EnvPost(q) ==
    /\ ~MicrotaskPending
    /\ Len(calls) < MaxCalls
    /\ Issue(authenticatedPost(apiToken, "env", q.url, q.data, q.config))
    /\ UNCHANGED <<pollVars, execVars>>

Next ==
    \/ \E q \in EnvRequests : EnvGet(q)
    \/ \E q \in EnvRequests : EnvPost(q)
    \/ ClientNext

Spec == Init /\ [][Next]_vars

---------------------------------------------------------------------------
(* SpecPoll: one run of pollTranslationProgress *)

\* getAndPrintProgress up to its await
getAndPrintProgress ==
    IF sentinel
    THEN UNCHANGED <<clientVars, pollVars, execVars>>
    ELSE /\ Issue(authenticatedGet(apiToken, "poll", ProgressUrl(TranslationJobId), NoConfig))
         /\ UNCHANGED execVars

\* pollTranslationProgress: the promise executor calls getAndPrintProgress() and
\* sets the interval
PollStart ==
    /\ promise = "idle"
    /\ getAndPrintProgress
    /\ promise' = "pending"
    /\ intervalId' = "active"
    /\ UNCHANGED <<sentinel, rejection, stdout>>

\* the interval timer fires: setInterval(getAndPrintProgress, 1000)
Tick ==
    /\ ~MicrotaskPending
    /\ intervalId = "active"
    /\ Len(calls) < MaxRequests
    /\ getAndPrintProgress
    /\ UNCHANGED pollVars

NextPoll ==
    \/ PollStart
    \/ Tick
    \/ ClientNext

SpecPoll == Init /\ [][NextPoll]_vars

\* SpecPollFair: the same run when the event loop keeps running: the interval timer
\* keeps firing while set, a queued continuation runs, a request to the transport
\* settles (by its 30 s timer at the latest) and response.json() finishes
Settles(i) == (\E r \in ResponsesFor(calls[i]) : FetchResponds(i, r)) \/ FetchFails(i) \/ TimerFires(i)
SpecPollFair ==
    /\ SpecPoll
    /\ WF_vars(Tick)
    /\ WF_vars(\E i \in 1..Len(calls) : RunMicrotask(i))
    /\ WF_vars(\E i \in 1..Len(calls) : Settles(i))
    /\ WF_vars(\E i \in 1..Len(calls) : JsonSettles(i))

---------------------------------------------------------------------------
(* SpecExec: one run of runTranslationScript, or of executeTranslation alone *)

I18nConfigs ==
    {[defaultLocale |-> d, locales |-> l] :
        d \in SiteLocales, l \in UNION {[1..n -> SiteLocales] : n \in 0..MaxLocales}}

PluginOptions ==
    {[projectId |-> JsString("p1"), apiToken |-> JsString("tok")],
     [projectId |-> JsString("p1"), apiToken |-> JsString("")]}

\* configurations a caller hands to executeTranslation directly
DirectConfigs(d) ==
    {[projectId |-> JsString("p1"), apiToken |-> t, sourceLocale |-> JsString("en-US"),
      defaultLocale |-> JsUndefined, targetLocales |-> <<JsString("fr-FR")>>,
      sourceFilePaths |-> [k \in 1..Len(d) |-> SourcePaths[k].sourceFilePath]] :
        t \in {JsString("tok"), JsUndefined}}

InitExec ==
    /\ apiToken = JsUndefined
    /\ calls = <<>>
    /\ fetchCount = 0
    /\ PollIdle
    /\ i18n \in I18nConfigs
    /\ options \in PluginOptions
    /\ disk \in Disks
    /\ i18nDir = {}
    /\ pc = "idle"
    /\ blendinConfig = NoBlendinConfig
    /\ filesMetadata = <<>>
    /\ planBody = NoBody
    /\ execPromise = "idle"
    /\ scriptPromise = "idle"

\* runTranslationScript up to `await getAllI18nFiles('i18n')`: the options are
\* validated, the locales and the source files found, the files copied
ScriptStart ==
    /\ pc = "idle"
    /\ scriptPromise = "idle"
    /\ IF ~SchemaAccepts(options)
       THEN pc' = "done" /\ scriptPromise' = "rejected" /\ UNCHANGED i18nDir
       ELSE LET locales == getLocalesConfig(i18n)
                copy == copySourceFilesToLocales(SourceFiles(disk), locales.targetLocales,
                                                 i18n.defaultLocale, disk, i18nDir)
            IN  /\ i18nDir' = copy.dir
                /\ IF copy.threw
                   THEN pc' = "done" /\ scriptPromise' = "rejected"
                   ELSE pc' = "script-await" /\ scriptPromise' = "pending"
    /\ UNCHANGED <<clientVars, pollVars, i18n, options, disk, blendinConfig, filesMetadata,
                   planBody, execPromise>>

\* executeTranslation up to its first await: getFilesMetadata reads the files
ExecuteTranslationEnter(cfg) ==
    /\ blendinConfig' = cfg
    /\ execPromise' = "pending"
    /\ IF GetFilesMetadataThrows(disk, cfg.sourceFilePaths)
       THEN pc' = "exec-metadata-threw" /\ UNCHANGED filesMetadata
       ELSE /\ pc' = "exec-await-metadata"
            /\ filesMetadata' = getFilesMetadata(disk, cfg.sourceFilePaths)

\* runTranslationScript after its await: the configuration is built and
\* executeTranslation is called, not awaited; the script's promise resolves
ScriptCallsExecute ==
    /\ pc = "script-await"
    /\ ExecuteTranslationEnter(ScriptConfig(options, getLocalesConfig(i18n),
                                            SourceFiles(disk)))
    /\ scriptPromise' = "resolved"
    /\ UNCHANGED <<clientVars, pollVars, i18n, options, disk, i18nDir, planBody>>

\* executeTranslation called with a configuration of the caller's own
DirectExecute ==
    /\ pc = "idle"
    /\ scriptPromise = "idle"
    /\ \E cfg \in DirectConfigs(disk) : ExecuteTranslationEnter(cfg)
    /\ UNCHANGED <<clientVars, pollVars, i18n, options, disk, i18nDir, planBody,
                   scriptPromise>>

\* a caller hands copySourceFilesToLocales the codes of all the site's locales, the
\* default's among them
BlendinLocales(cfg) == [k \in 1..Len(cfg.locales) |-> DEFAULT_FLAGS(cfg.locales[k])]
DirectCopy ==
    /\ pc = "idle"
    /\ scriptPromise = "idle"
    /\ LET copy == copySourceFilesToLocales(SourceFiles(disk), BlendinLocales(i18n),
                                            i18n.defaultLocale, disk, i18nDir)
       IN  /\ i18nDir' = copy.dir
           /\ pc' = IF copy.threw THEN "copy-threw" ELSE "copied"
    /\ UNCHANGED <<clientVars, pollVars, i18n, options, disk, blendinConfig, filesMetadata,
                   planBody, execPromise, scriptPromise>>

\* a failed read in getFilesMetadata rejects executeTranslation's promise
ExecMetadataThrew ==
    /\ pc = "exec-metadata-threw"
    /\ pc' = "done"
    /\ execPromise' = "rejected"
    /\ UNCHANGED <<clientVars, pollVars, i18n, options, disk, i18nDir, blendinConfig,
                   filesMetadata, planBody, scriptPromise>>

\* executeTranslation: the plan body is built, the client created, the plan posted
ExecSubmitPlan ==
    /\ pc = "exec-await-metadata"
    /\ pc' = "exec-await-post"
    /\ apiToken' = blendinConfig.apiToken
    /\ LET c == authenticatedPost(blendinConfig.apiToken, "exec", PlanUrl,
                                  PlanPostData(blendinConfig, filesMetadata), NoConfig)
       IN  /\ calls' = Append(calls, c)
           /\ fetchCount' = fetchCount + (IF c.fetched THEN 1 ELSE 0)
           /\ planBody' = JSONStringify(PlanPostData(blendinConfig, filesMetadata))
    /\ UNCHANGED <<pollVars, i18n, options, disk, i18nDir, blendinConfig, filesMetadata,
                   execPromise, scriptPromise>>

NextExec ==
    \/ ScriptStart
    \/ ScriptCallsExecute
    \/ DirectExecute
    \/ DirectCopy
    \/ ExecMetadataThrew
    \/ ExecSubmitPlan
    \/ ClientNext

SpecExec == InitExec /\ [][NextExec]_vars

---------------------------------------------------------------------------
(* Properties *)

CallIds == 1..Len(calls)
Terminal == promise \in {"resolved", "rejected"}

\* C1: a client without a token (absent or '') answers every authenticatedGet and
\* authenticatedPost with {status: 401, statusText: 'Unauthorized', data: {}} and
\* never calls fetch
C1_NoTokenShortCircuits ==
    apiToken \in {JsUndefined, JsString("")} =>
        /\ fetchCount = 0
        /\ \A i \in CallIds :
              /\ ~calls[i].fetched
              /\ calls[i].outcome.kind = "ok"
              /\ calls[i].outcome.status = 401
              /\ calls[i].outcome.statusText = "Unauthorized"
              /\ calls[i].outcome.data = EmptyObject

C1_Witness ==
    /\ apiToken = JsString("")
    /\ \E i, j \in CallIds :
          /\ calls[i].fn = "GET" /\ calls[i].phase = "done"
          /\ calls[j].fn = "POST" /\ calls[j].phase = "done"

EqualCounts(c) ==
    /\ c.phase = "done"
    /\ c.outcome.kind = "ok"
    /\ c.outcome.data.json = "object"
    /\ c.outcome.data.completed.t = "number"
    /\ c.outcome.data.completed = c.outcome.data.total
HandledNow(i) == i \in CallIds /\ calls[i].phase # "done" /\ calls'[i].phase = "done"
\* C2 (as claimed): a status response with translations_completed equal to
\* translations_total leaves the poller Completed (the promise resolved); the promise
\* resolves only in a step that handles such a response; once it has resolved no
\* further status request is issued
C2_CompletedOnEqualResponse ==
    /\ [](\A i \in CallIds :
            (calls[i].awaiter = "poll" /\ calls[i].fetched /\ EqualCounts(calls[i]))
                => promise = "resolved")
    /\ [][(promise = "pending" /\ promise' = "resolved")
            => \E i \in CallIds :
                  /\ HandledNow(i)
                  /\ calls'[i].outcome.kind = "ok"
                  /\ calls'[i].outcome.data.completed = calls'[i].outcome.data.total]_vars
    /\ [][promise = "resolved" => Len(calls') = Len(calls)]_vars

StatusRequestFailed(c) ==
    /\ c.awaiter = "poll"
    /\ c.fetched
    /\ c.phase = "done"
    /\ \/ c.outcome.kind = "error"
       \/ c.outcome.data.json # "object"
       \/ c.outcome.data.total.t = "undefined"
       \/ c.outcome.data.completed.t = "undefined"
\* C3 (as claimed): a status request that failed (transport error, timeout, unparsable
\* body, or a body lacking translations_total or translations_completed) leaves the
\* poller Failed, its promise rejected with that error, and no request follows
C3_FailureRejects ==
    /\ [](\A i \in CallIds : StatusRequestFailed(calls[i]) => promise = "rejected")
    /\ [][(\E i \in CallIds : StatusRequestFailed(calls[i]))
            => Len(calls') = Len(calls)]_vars

\* C4 (as claimed): the result of a status request that arrives after the poller has
\* left Polling changes nothing: no output, no change of sentinel, timer or promise
C4_LateResultIgnored ==
    [][\A i \in CallIds :
          (Terminal /\ calls[i].awaiter = "poll" /\ HandledNow(i))
              => UNCHANGED pollVars]_vars

\* C5 (as claimed): at most one status request is outstanding at any moment
C5_AtMostOneOutstanding ==
    Cardinality({i \in CallIds : calls[i].awaiter = "poll" /\ Outstanding(calls[i])}) <= 1

\* C6: the poller only moves from Polling to Completed or to Failed; both are
\* absorbing, the promise settles once (its rejection error never changes), and in a
\* terminal state the sentinel is true and the interval timer cleared, for good
C6_TerminalAbsorbing ==
    /\ [](Terminal => sentinel /\ intervalId = "cleared")
    /\ [][/\ promise = "pending" => promise' \in {"pending", "resolved", "rejected"}
          /\ Terminal => promise' = promise /\ rejection' = rejection
          /\ promise = "idle" => promise' \in {"idle", "pending"}]_vars

\* a late completion handled after the poller had failed
C6_Witness ==
    /\ promise = "rejected"
    /\ sentinel
    /\ intervalId = "cleared"
    /\ Len(stdout) >= 2
    /\ stdout[Len(stdout)] = CompletedLine

TransportOutcome(c) ==
    IF c.transport = "failed" THEN Rejected(NetworkError)
    ELSE IF c.response.body.json = "invalid" THEN Rejected(JsonError)
    ELSE Fulfilled(c.response.status, c.response.statusText, c.response.body)
\* C7: with a token, a call whose timer fires before the transport answers fails with
\* the timeout error, which no transport failure produces; when the transport answers
\* or fails first the call's outcome is the transport's and the timer, cleared, never
\* fires
C7_TimeoutOrTransport ==
    /\ [](\A i \in CallIds : calls[i].fetched =>
            /\ calls[i].timer = "fired" <=> calls[i].outcome = Rejected(TimeoutError)
            /\ (calls[i].transport # "pending" /\ calls[i].timer # "fired")
                  => /\ calls[i].timer = "cleared"
                     /\ calls[i].phase = "done" => calls[i].outcome = TransportOutcome(calls[i]))
    /\ [][\A i \in CallIds :
            (calls[i].timer # "fired" /\ calls'[i].timer = "fired")
                => calls[i].transport = "pending"]_vars

\* one call timed out, another was answered by the transport
C7_Witness ==
    \E i, j \in CallIds :
        /\ calls[i].outcome = Rejected(TimeoutError)
        /\ calls[j].timer = "cleared" /\ calls[j].outcome.kind = "ok"

BaseCount(url) == Cardinality({k \in 1..Len(url) : url[k] = baseURL})
\* C9 (as claimed): every requested URL is the base URL followed once by the endpoint
\* path: the plan submission, the poller's status request, the final fetch
C9_BaseUrlOnce ==
    \A i \in CallIds : calls[i].fetched =>
        /\ BaseCount(calls[i].url) = 1
        /\ calls[i].awaiter = "poll" =>
              calls[i].url = <<baseURL, "/translation-jobs/", TranslationJobId,
                               "/translation-progress">>
        /\ calls[i].awaiter = "exec" => calls[i].url = <<baseURL>> \o PlanUrl

PlanSubmitted == pc = "exec-await-post" \/ (pc = "done" /\ Len(calls) > 0)
\* C10 (as claimed): the submitted plan body has one files_metadata entry per
\* configured source path, in order, with that path and the hash of its trimmed
\* content, and carries the configuration's source/default locale and target locales
C10_PlanBody ==
    PlanSubmitted =>
        /\ {"files_metadata", "source_locale_iso", "target_locale_isos"}
              \subseteq DOMAIN planBody
        /\ Len(planBody.files_metadata) = Len(blendinConfig.sourceFilePaths)
        /\ \A k \in 1..Len(blendinConfig.sourceFilePaths) :
              /\ planBody.files_metadata[k].sourceFilePath = blendinConfig.sourceFilePaths[k]
              /\ planBody.files_metadata[k].fileHash
                    = generateStringHash(Trim(ReadFileSync(disk,
                                                  blendinConfig.sourceFilePaths[k])))
        /\ planBody.source_locale_iso
              = (IF blendinConfig.sourceLocale # JsUndefined
                 THEN blendinConfig.sourceLocale ELSE blendinConfig.defaultLocale)
        /\ planBody.target_locale_isos = blendinConfig.targetLocales

ConfigBuilt == scriptPromise = "resolved"
\* the positions of i18n.locales whose code differs from the default locale's code
KeptPositions ==
    {k \in 1..Len(i18n.locales) :
        DEFAULT_FLAGS(i18n.locales[k]) # DEFAULT_FLAGS(i18n.defaultLocale)}
\* the j-th of them, in list order
KeptPosition(j) ==
    CHOOSE k \in KeptPositions : Cardinality({m \in KeptPositions : m <= k}) = j

\* C11: the targetLocales getLocalesConfig returns never hold the code of the default
\* locale, and hold the code of every other listed locale, in list order
C11_TargetsExcludeDefault ==
    ConfigBuilt =>
        /\ \A j \in 1..Len(blendinConfig.targetLocales) :
              blendinConfig.targetLocales[j] # DEFAULT_FLAGS(i18n.defaultLocale)
        /\ Len(blendinConfig.targetLocales) = Cardinality(KeptPositions)
        /\ \A j \in 1..Cardinality(KeptPositions) :
              blendinConfig.targetLocales[j] = DEFAULT_FLAGS(i18n.locales[KeptPosition(j)])

\* two different site locales of the list both map to the default locale's code
C11_Witness ==
    /\ ConfigBuilt
    /\ Len(i18n.locales) = 2
    /\ i18n.locales[1] # i18n.locales[2]
    /\ i18n.defaultLocale = i18n.locales[1]
    /\ DEFAULT_FLAGS(i18n.locales[2]) = DEFAULT_FLAGS(i18n.defaultLocale)
    /\ blendinConfig.targetLocales = <<>>

\* a listed locale other than the default is kept
C11_KeptWitness ==
    /\ ConfigBuilt
    /\ i18n.locales = <<"fr", "en">>
    /\ i18n.defaultLocale = "en"
    /\ blendinConfig.targetLocales = <<JsString("fr-FR")>>

ScriptRan == scriptPromise # "idle"
ExecEntered == execPromise # "idle"
PlanCalls == {i \in CallIds : calls[i].awaiter = "exec"}

\* C12 (as claimed): a failing step aborts the rest of the workflow: a failed read in
\* getFilesMetadata sends no plan request, a failed plan submission rejects
\* executeTranslation with nothing run after it, and the failure reaches the caller
\* of runTranslationScript
C12_FailureAbortsAndPropagates ==
    /\ (ExecEntered /\ GetFilesMetadataThrows(disk, blendinConfig.sourceFilePaths))
          => (PlanCalls = {} /\ fetchCount = 0 /\ execPromise \in {"pending", "rejected"})
    /\ \A i \in PlanCalls :
          (calls[i].phase = "done" /\ calls[i].outcome.kind = "error")
              => (execPromise = "rejected" /\ pc = "done" /\ Cardinality(PlanCalls) = 1)
    /\ (ScriptRan /\ execPromise = "rejected") => scriptPromise = "rejected"

\* C12's parts that hold: a failed read sends no plan request, and a failed plan
\* submission rejects executeTranslation and ends the run
C12_AbortHolds ==
    /\ (ExecEntered /\ GetFilesMetadataThrows(disk, blendinConfig.sourceFilePaths))
          => (PlanCalls = {} /\ fetchCount = 0 /\ execPromise \in {"pending", "rejected"})
    /\ \A i \in PlanCalls :
          (calls[i].phase = "done" /\ calls[i].outcome.kind = "error")
              => (execPromise = "rejected" /\ pc = "done" /\ Cardinality(PlanCalls) = 1)

\* the text between its first and its last character that is not whitespace
InnerText(text) ==
    LET solid == {k \in 1..Len(text) : text[k] \notin Whitespace}
    IN  IF solid = {} THEN <<>>
        ELSE SubSeq(text, CHOOSE k \in solid : \A m \in solid : k <= m,
                          CHOOSE k \in solid : \A m \in solid : m <= k)
ContentAt(k) == ReadFileSync(disk, filesMetadata[k].sourceFilePath)

\* C13: the fileHash of getFilesMetadata is a function of the file's content without
\* its leading and trailing whitespace: files whose trimmed contents are equal get
\* the same fileHash, whatever their paths and positions
C13_HashOfTrimmedContent ==
    \A j, k \in 1..Len(filesMetadata) :
        /\ filesMetadata[k].fileHash = generateStringHash(InnerText(ContentAt(k)))
        /\ InnerText(ContentAt(j)) = InnerText(ContentAt(k))
              => filesMetadata[j].fileHash = filesMetadata[k].fileHash

\* two files at different paths whose contents differ by whitespace only
C13_Witness ==
    /\ Len(filesMetadata) = 2
    /\ ContentAt(1) = <<"a", "\n">>
    /\ ContentAt(2) = <<" ", "a">>
    /\ filesMetadata[1].sourceFilePath # filesMetadata[2].sourceFilePath
    /\ filesMetadata[1].fileHash = filesMetadata[2].fileHash

BothCountsEqual(c) ==
    /\ c.awaiter = "poll"
    /\ c.outcome.kind = "ok"
    /\ c.outcome.data.json = "object"
    /\ c.outcome.data.completed.t = "number"
    /\ c.outcome.data.total.t = "number"
    /\ c.outcome.data.completed.v \in Nat
    /\ c.outcome.data.total.v \in Nat
    /\ c.outcome.data.completed.v = c.outcome.data.total.v
\* C14 (as claimed): the poller's promise resolves only in a step that handles a status
\* response in which translations_completed and translations_total are both present,
\* non-negative integers and equal; a response with neither count, like the 401 of a
\* client without a token, does not complete the poll
C14_CompletedNeedsBothCounts ==
    [][(promise = "pending" /\ promise' = "resolved")
          => \E i \in CallIds : HandledNow(i) /\ BothCountsEqual(calls'[i])]_vars

FirstRequestOnEntry ==
    [][(promise = "idle" /\ promise' # "idle")
          => /\ intervalId = "unset" /\ intervalId' = "active"
             /\ Len(calls') = Len(calls) + 1
             /\ calls'[Len(calls')].awaiter = "poll"
             /\ calls'[Len(calls')].fn = "GET"]_vars
OneRequestPerTick ==
    \A n \in 1..(MaxRequests - 1) :
        (promise = "pending" /\ Len(calls) = n)
            ~> (promise # "pending" \/ Len(calls) > n)
NoRequestFails ==
    \A i \in CallIds :
        /\ calls[i].transport # "failed"
        /\ calls[i].timer # "fired"
        /\ calls[i].response.body.json \notin {"invalid", "null"}
EqualReported ==
    \E i \in CallIds :
        /\ calls[i].awaiter = "poll"
        /\ calls[i].transport = "responded"
        /\ calls[i].phase \in {"json", "done"}
        /\ calls[i].response.body.completed.t = "number"
        /\ calls[i].response.body.completed = calls[i].response.body.total
EqualReportCompletes == [](NoRequestFails) => (EqualReported ~> promise = "resolved")
RequestFailed(c) == c.outcome.kind = "error" \/ c.outcome.data.json # "object"
LeavesPollingOnReportOrFailure ==
    [][(promise = "pending" /\ promise' # "pending")
          => \E i \in CallIds :
                /\ HandledNow(i)
                /\ BothCountsEqual(calls'[i]) \/ RequestFailed(calls'[i])]_vars
\* C15 (as claimed): the first status request is issued on entry, before any interval
\* tick; while the poller is Polling every tick issues another; when no request fails,
\* an answer with equal counts leads to Completed; and the poller leaves Polling only
\* on an answer with equal counts or on a failure, so that with a server that never
\* reports equal counts and never fails it polls forever
C15_PollsUntilEqualCounts ==
    /\ FirstRequestOnEntry
    /\ OneRequestPerTick
    /\ EqualReportCompletes
    /\ LeavesPollingOnReportOrFailure

\* C15, what holds: the requests on entry and per tick, and completion after an
\* answer with equal counts
C15_RequestsAndCompletion ==
    /\ FirstRequestOnEntry
    /\ OneRequestPerTick
    /\ EqualReportCompletes

CopyReturned == scriptPromise \in {"pending", "resolved"} \/ pc = "copied"
DefaultCode == DEFAULT_FLAGS(i18n.defaultLocale)
OtherTargets == {DEFAULT_FLAGS(i18n.locales[k]) : k \in 1..Len(i18n.locales)} \ {DefaultCode}
SameDestination(j, k) ==
    /\ SourcePaths[j].pluginName = SourcePaths[k].pluginName
    /\ Basename(SourcePaths[j].sourceFilePath) = Basename(SourcePaths[k].sourceFilePath)
LastLike(k) == CHOOSE j \in 1..Len(disk) : SameDestination(j, k) /\ \A m \in 1..Len(disk) : SameDestination(m, k) => m <= j
ExpectedCopies ==
    {[path |-> <<"i18n", ToLowerCase(L), SourcePaths[k].pluginName, "current",
                 Basename(SourcePaths[k].sourceFilePath)>>,
      content |-> disk[LastLike(k)]] : L \in OtherTargets, k \in 1..Len(disk)}

\* C16: copySourceFilesToLocales writes nothing under i18n/<default locale's code in
\* lower case> and nothing onto a source file; when it returns, for every other target
\* locale L and source file f, i18n/<lowercase L>/<f.pluginName>/current/<basename of f>
\* holds the content of the last file of sourceFiles with f's pluginName and basename,
\* and nothing else was written
C16_CopiesLastByBasename ==
    /\ \A e \in i18nDir :
          /\ e.path[1] = "i18n"
          /\ e.path[2] # ToLowerCase(DefaultCode)
          /\ \A k \in 1..Len(SourcePaths) : e.path # SourcePaths[k].sourceFilePath
    /\ CopyReturned => i18nDir = ExpectedCopies

\* two source files of one plugin with one basename and different contents were
\* copied, with the default locale's code among the target locales
C16_Witness ==
    /\ pc = "copied"
    /\ Len(disk) = 2
    /\ disk[1] = <<"a">>
    /\ disk[2] = <<"b">>
    /\ i18n.defaultLocale = "en"
    /\ i18n.locales = <<"en", "fr">>
    /\ i18nDir = {[path |-> <<"i18n", "fr-fr", "docusaurus-plugin-content-docs", "current",
                              "a.md">>,
                   content |-> <<"b">>]}

=============================================================================
